---- MODULE Spec2Model ----
(***************************************************************************)
(* FFmpegEncodedFrame::Decrypt (src/shaka/src/media/ffmpeg_encoded_frame.cc)*)
(* as a state machine: one Decrypt call per call id, walking the subsample *)
(* table of its frame, copying clear bytes, handing protected bytes to the *)
(* CDM and updating the IV by the rules of the frame's protection scheme.  *)
(*                                                                         *)
(* Bytes are integers 0..255, buffers are sequences of bytes, offsets are  *)
(* 0-based as in the code (sequence index = offset + 1).  A uint32_t is a  *)
(* pair <<high 16 bits, low 16 bits>> so that 32-bit arithmetic keeps its  *)
(* width.  key_id is passed to the CDM unchanged and is left out.          *)
(***************************************************************************)
EXTENDS Integers, Sequences, FiniteSets, TLC

VARIABLES
    side_data,       \* [call -> what av_packet_get_side_data / the decoder yield]
    enc_info,        \* [call -> the decoded AVEncryptionInfo]
    packet_,         \* [call -> packet_.data, of length packet_.size]
    cdm,             \* [call -> how the CDM passed in produces its output]
    dest_packet,     \* [call -> dest_packet->data]
    pc,              \* [call -> position in Decrypt]
    scheme,          \* [call -> local eme::EncryptionScheme scheme]
    i,               \* [call -> loop index]
    src,             \* [call -> offset of pointer src in packet_.data]
    dest,            \* [call -> offset of pointer dest in dest_packet->data]
    total_size,      \* [call -> bytes of the packet not yet consumed]
    block_offset,    \* [call -> bytes into the current AES block]
    cur_iv,          \* [call -> the call's mutable IV copy]
    status,          \* [call -> the Status returned, "none" before return]
    cdm_calls,       \* [call -> the cdm->Decrypt calls made, in order]
    dest_writes,     \* [call -> the writes to dest_packet->data, in order]
    iv_step,         \* IncrementIv called on its own: arguments and result
    ready_state,     \* MediaSource::ready_state
    source_buffers_, \* MediaSource::source_buffers_: [source type -> updating]
    video_element_,  \* MediaSource::video_element_: "null" or "video"
    events,          \* the events the MediaSource has scheduled, in order
    controller_,     \* the calls made on MediaSource::controller_, in order
    last_call        \* the last call on the MediaSource and what it returned

\* what no step of Decrypt changes
media_source == <<ready_state, source_buffers_, video_element_, events,
                  controller_, last_call>>
frame == <<side_data, enc_info, packet_, cdm, iv_step, media_source>>
locals == <<scheme, i, src, dest, total_size, block_offset, cur_iv>>
\* dest_packet->data and the history of the writes to it
output == <<dest_packet, dest_writes>>
vars == <<side_data, enc_info, packet_, cdm, dest_packet, pc, scheme, i, src,
          dest, total_size, block_offset, cur_iv, status, cdm_calls,
          dest_writes, iv_step, ready_state, source_buffers_, video_element_,
          events, controller_, last_call>>

-----------------------------------------------------------------------------
(* Program constants *)

kAesBlockSize == 16

kCencScheme == "cenc"   \* 0x63656e63
kCensScheme == "cens"   \* 0x63656e73
kCbc1Scheme == "cbc1"   \* 0x63626331
kCbcsScheme == "cbcs"   \* 0x63626373
kOtherScheme == "none"  \* 0x00000000, any tag that is none of the four

StatusValues == {"Success", "NotSupported", "KeyNotFound",
                 "InvalidContainerData", "OutOfMemory", "UnknownError"}

DecryptStatus == {"Success", "NotSupported", "KeyNotFound", "OtherError"}

-----------------------------------------------------------------------------
(* Bounds of the model *)

MaxSubsamples == 3      \* subsample_count <= MaxSubsamples
SizeSlack == 4          \* packet_.size is the table's total, or this far off

\* <<bytes_of_clear_data, bytes_of_protected_data>>: clear bytes only, less
\* than an AES block, clear bytes and more than a block, two AES blocks
SubsampleSizes == {<<4, 0>>, <<0, 8>>, <<4, 20>>, <<0, 32>>}
CryptValues == {0, 1, 2}
SkipValues == {0, 1}
SchemeTags == {kCencScheme, kCensScheme, kCbc1Scheme, kCbcsScheme, kOtherScheme}

Unwritten == 0 - 1      \* a byte of dest_packet->data Decrypt has not written

-----------------------------------------------------------------------------
(* Byte buffers *)

Zeros(n) == [k \in 1..n |-> 0]

Ones(n) == [k \in 1..n |-> 255]

\* packet_.data of a packet of n bytes: all bytes of a packet differ.
Payload(n) == [k \in 1..n |-> ((k - 1) * 37 + 11) % 256]

\* Mutant of WriteAt: the copy starts one byte too far.
WriteAt_OffByOne(buf, off, bytes) ==
    [k \in 1..Len(buf) |->
        IF off + 1 < k /\ k <= off + 1 + Len(bytes) THEN bytes[k - off - 1] ELSE buf[k]]

\* memcpy(buf + off, bytes, Len(bytes))
WriteAt(buf, off, bytes) ==
    [k \in 1..Len(buf) |->
        IF off < k /\ k <= off + Len(bytes) THEN bytes[k - off] ELSE buf[k]]

\* the n bytes at buf + off
Bytes(buf, off, n) == SubSeq(buf, off + 1, off + n)

IvValues ==
    { Zeros(16),
      <<1, 2, 3, 4, 5, 6, 7, 8>> \o Zeros(4) \o Ones(4),   \* low word 2^32-1
      <<1, 2, 3, 4, 5, 6, 7, 8>> \o Ones(8),               \* counter 2^64-1
      <<1, 2, 3, 4, 5, 6, 7, 8>> }                         \* iv_size 8

-----------------------------------------------------------------------------
(* uint32_t arithmetic on <<high half, low half>> *)

Half == 65536

ToU32(n) == <<(n \div Half) % Half, n % Half>>

Max32 == <<Half - 1, Half - 1>>

Add32(a, b) ==
    LET lo == a[2] + b[2]
        hi == a[1] + b[1] + (lo \div Half)
    IN  <<hi % Half, lo % Half>>

Sub32(a, b) ==
    LET lo == a[2] - b[2]
        borrow == IF lo < 0 THEN 1 ELSE 0
        hi == a[1] - b[1] - borrow
    IN  <<(hi + Half) % Half, (lo + Half) % Half>>

Lt32(a, b) == a[1] < b[1] \/ (a[1] = b[1] /\ a[2] < b[2])

\* ntohl of the 4 bytes b as they lie in memory (big-endian number)
Ntohl(b) == <<b[1] * 256 + b[2], b[3] * 256 + b[4]>>

\* the 4 bytes in memory of htonl(w)
Htonl(w) == <<w[1] \div 256, w[1] % 256, w[2] \div 256, w[2] % 256>>

-----------------------------------------------------------------------------
(* Helpers of Decrypt *)

\* IncrementIv: iv->at(8) throws on a vector of 8 bytes or fewer.
IvAtThrows(iv) == Len(iv) <= 8

\* Mutant of IncrementIv: the carry into counter[0] is lost.
IncrementIv_NoCarry(count, iv) ==
    LET c1 == Ntohl(Bytes(iv, 12, 4))
        n1 == Add32(c1, count)
    IN  Bytes(iv, 0, 12) \o Htonl(n1)

\* Mutant of IncrementIv: the carry is also taken when the sum is 2^32 - 1.
IncrementIv_CarryAtMax(count, iv) ==
    LET c0 == Ntohl(Bytes(iv, 8, 4))
        c1 == Ntohl(Bytes(iv, 12, 4))
        n0 == IF ~Lt32(c1, Sub32(Max32, count))
              THEN Add32(c0, ToU32(1))
              ELSE c0
        n1 == Add32(c1, count)
    IN  Bytes(iv, 0, 8) \o Htonl(n0) \o Htonl(n1)

\* IncrementIv(count, iv) on a 16-byte iv, count a uint32_t: counter[0] is
\* iv[8..12), counter[1] is iv[12..16); the function's result is the new
\* content of *iv.
IncrementIv(count, iv) ==
    LET c0 == Ntohl(Bytes(iv, 8, 4))
        c1 == Ntohl(Bytes(iv, 12, 4))
        n0 == IF Lt32(Sub32(Max32, count), c1)
              THEN Add32(c0, ToU32(1))
              ELSE c0
        n1 == Add32(c1, count)
    IN  Bytes(iv, 0, 8) \o Htonl(n0) \o Htonl(n1)

\* Mutant of ClassifyScheme: 'cbc1' tests crypt_byte_block only.
ClassifyScheme_Cbc1SkipUnchecked(tag, crypt_byte_block, skip_byte_block) ==
    CASE tag = kCencScheme ->
            IF crypt_byte_block # 0 \/ skip_byte_block # 0
            THEN [status |-> "InvalidContainerData", scheme |-> "none"]
            ELSE [status |-> "Success", scheme |-> "AesCtr"]
      [] tag = kCensScheme -> [status |-> "Success", scheme |-> "AesCtr"]
      [] tag = kCbc1Scheme ->
            IF crypt_byte_block # 0
            THEN [status |-> "InvalidContainerData", scheme |-> "none"]
            ELSE [status |-> "Success", scheme |-> "AesCbc"]
      [] tag = kCbcsScheme -> [status |-> "Success", scheme |-> "AesCbc"]
      [] OTHER -> [status |-> "NotSupported", scheme |-> "none"]

\* switch (enc_info->scheme): the Status returned at once ("Success" when
\* Decrypt goes on) and the scheme handed to the CDM.
ClassifyScheme(tag, crypt_byte_block, skip_byte_block) ==
    CASE tag = kCencScheme ->
            IF crypt_byte_block # 0 \/ skip_byte_block # 0
            THEN [status |-> "InvalidContainerData", scheme |-> "none"]
            ELSE [status |-> "Success", scheme |-> "AesCtr"]
      [] tag = kCensScheme -> [status |-> "Success", scheme |-> "AesCtr"]
      [] tag = kCbc1Scheme ->
            IF crypt_byte_block # 0 \/ skip_byte_block # 0
            THEN [status |-> "InvalidContainerData", scheme |-> "none"]
            ELSE [status |-> "Success", scheme |-> "AesCbc"]
      [] tag = kCbcsScheme -> [status |-> "Success", scheme |-> "AesCbc"]
      [] OTHER -> [status |-> "NotSupported", scheme |-> "none"]

\* Mutant of MapDecryptStatus: the KeyNotFound case is missing.
MapDecryptStatus_NoKeyNotFound(decrypt_status) ==
    CASE decrypt_status = "NotSupported" -> "NotSupported"
      [] OTHER -> "UnknownError"

\* switch (decrypt_status), the cases that return
MapDecryptStatus(decrypt_status) ==
    CASE decrypt_status = "NotSupported" -> "NotSupported"
      [] decrypt_status = "KeyNotFound" -> "KeyNotFound"
      [] OTHER -> "UnknownError"

\* Mutant of SubsampleFits: the two sizes are added before the comparison.
SubsampleFits_Sum(size, clear_bytes, protected_bytes) ==
    ~Lt32(size, Add32(clear_bytes, protected_bytes))

\* the negation of the "Invalid subsample size" test, on a size_t of 32 bits
\* (the narrowest a build has) and two unsigned int
SubsampleFits(size, clear_bytes, protected_bytes) ==
    ~(Lt32(size, clear_bytes) \/ Lt32(Sub32(size, clear_bytes), protected_bytes))

\* Mutant of CencIncrement: the bytes carried in from the subsample before
\* are not counted.
CencIncrement_NoOffset(offset, protected_bytes) ==
    protected_bytes \div kAesBlockSize

\* 'cenc': increment = (block_offset + protected_bytes) / kAesBlockSize
CencIncrement(offset, protected_bytes) ==
    (offset + protected_bytes) \div kAesBlockSize

\* Mutant of CensIncrement: a partial pattern counts only when it has more
\* blocks than crypt_byte_block.
CensIncrement_Strict(protected_bytes, crypt_byte_block, skip_byte_block) ==
    LET num_blocks == protected_bytes \div kAesBlockSize
        pattern_size == crypt_byte_block + skip_byte_block
        whole == (num_blocks \div pattern_size) * crypt_byte_block
    IN  IF num_blocks % pattern_size > crypt_byte_block
        THEN whole + crypt_byte_block
        ELSE whole

\* 'cens', pattern_size # 0: whole patterns, plus a partial one that has a
\* whole crypt_byte_block
CensIncrement(protected_bytes, crypt_byte_block, skip_byte_block) ==
    LET num_blocks == protected_bytes \div kAesBlockSize
        pattern_size == crypt_byte_block + skip_byte_block
        whole == (num_blocks \div pattern_size) * crypt_byte_block
    IN  IF num_blocks % pattern_size >= crypt_byte_block
        THEN whole + crypt_byte_block
        ELSE whole

\* Mutant of NextBlockOffset: the sum is not reduced to the block.
NextBlockOffset_NoMod(offset, protected_bytes) == offset + protected_bytes

\* Mutant of NextBlockOffset: block_offset is never updated.
NextBlockOffset_Kept(offset, protected_bytes) == offset

\* block_offset = (block_offset + protected_bytes) % kAesBlockSize
NextBlockOffset(offset, protected_bytes) ==
    (offset + protected_bytes) % kAesBlockSize

\* Mutant of Cbc1Rejects: only subsamples shorter than a block are rejected.
Cbc1Rejects_ShortOnly(protected_bytes) == protected_bytes < kAesBlockSize

\* the "'cbc1' requires subsamples to be a multiple of the AES block size" test
Cbc1Rejects(protected_bytes) ==
    protected_bytes < kAesBlockSize \/ protected_bytes % kAesBlockSize # 0

\* Mutant of Cbc1NextIv: the first block of the subsample instead of the last.
Cbc1NextIv_FirstBlock(data, offset, protected_bytes) ==
    Bytes(data, offset, kAesBlockSize)

\* cur_iv.assign(block_end - kAesBlockSize, block_end), block_end = src +
\* protected_bytes, src pointing into packet_.data
Cbc1NextIv(data, offset, protected_bytes) ==
    Bytes(data, offset + protected_bytes - kAesBlockSize, kAesBlockSize)

\* Mutant of FinalStatus: the check of the remaining bytes is left out.
FinalStatus_NoCheck(size) == "Success"

\* Mutant of FinalStatus: remaining bytes are reported as an unknown error.
FinalStatus_WrongKind(size) ==
    IF size # 0 THEN "UnknownError" ELSE "Success"

\* after the loop: "Extra remaining data after subsample handling"
FinalStatus(size) ==
    IF size # 0 THEN "InvalidContainerData" ELSE "Success"

\* What a CDM writes to its output on Success: an identity stub copies the
\* ciphertext, any other CDM writes different bytes.
CdmOutput(kind, ciphertext) ==
    IF kind = "identity"
    THEN ciphertext
    ELSE [k \in 1..Len(ciphertext) |-> 255 - ciphertext[k]]

-----------------------------------------------------------------------------
(* The frames Decrypt is called on *)

Sum(f, n) == IF n = 0 THEN 0 ELSE LET S[k \in 0..n] == IF k = 0 THEN 0 ELSE S[k - 1] + f[k] IN S[n]

SubsampleSize(s) == s.bytes_of_clear_data + s.bytes_of_protected_data

\* sum of bytes_of_clear_data + bytes_of_protected_data over the table
TableTotal(subsamples) ==
    Sum([k \in 1..Len(subsamples) |-> SubsampleSize(subsamples[k])],
        Len(subsamples))

SubsampleEntries ==
    {[bytes_of_clear_data |-> p[1], bytes_of_protected_data |-> p[2]] :
        p \in SubsampleSizes}

Tables == UNION {[1..n -> SubsampleEntries] : n \in 0..MaxSubsamples}

EncInfos ==
    [scheme : SchemeTags, crypt_byte_block : CryptValues,
     skip_byte_block : SkipValues, iv : IvValues, subsamples : Tables]

NoEncInfo ==
    [scheme |-> kOtherScheme, crypt_byte_block |-> 0, skip_byte_block |-> 0,
     iv |-> <<>>, subsamples |-> <<>>]

\* packet_.size: the table's total, SizeSlack bytes less, SizeSlack bytes more
PacketSize(subsamples, off) == TableTotal(subsamples) + off * SizeSlack

\* "ok": the side data decodes; "absent": av_packet_get_side_data returns
\* null; "malformed", "nomem": av_encryption_info_get_side_data returns null.
Frames ==
    {fr \in [side_data : {"ok"}, enc_info : EncInfos, off : {0 - 1, 0, 1},
             cdm : {"identity", "cipher"}] :
        PacketSize(fr.enc_info.subsamples, fr.off) >= 0}
    \cup [side_data : {"absent", "malformed", "nomem"}, enc_info : {NoEncInfo},
          off : {1}, cdm : {"cipher"}]

FrameSize(fr) == PacketSize(fr.enc_info.subsamples, fr.off)

-----------------------------------------------------------------------------
(* Decrypt *)

\* one Decrypt call per element of DOMAIN fr, on the frame fr gives it and
\* with a destination packet of its own
InitOn(fr) ==
    LET ids == DOMAIN fr
    IN  /\ side_data = [f \in ids |-> fr[f].side_data]
        /\ enc_info = [f \in ids |-> fr[f].enc_info]
        /\ packet_ = [f \in ids |-> Payload(FrameSize(fr[f]))]
        /\ cdm = [f \in ids |-> fr[f].cdm]
        /\ dest_packet = [f \in ids |-> [k \in 1..FrameSize(fr[f]) |-> Unwritten]]
        /\ pc = [f \in ids |-> "start"]
        /\ scheme = [f \in ids |-> "none"]
        /\ i = [f \in ids |-> 0]
        /\ src = [f \in ids |-> 0]
        /\ dest = [f \in ids |-> 0]
        /\ total_size = [f \in ids |-> 0]
        /\ block_offset = [f \in ids |-> 0]
        /\ cur_iv = [f \in ids |-> <<>>]
        /\ status = [f \in ids |-> "none"]
        /\ cdm_calls = [f \in ids |-> <<>>]
        /\ dest_writes = [f \in ids |-> <<>>]

InitFor(ids) == \E fr \in [ids -> Frames] : InitOn(fr)

\* IncrementIv has not been called on its own.
NoIvStep == [n |-> 0, count |-> ToU32(0), iv |-> <<>>, result |-> <<>>]

\* no call has been made on the MediaSource
NoCall == [n |-> 0, op |-> "MediaSource", error |-> FALSE, result |-> "void"]

\* media_source.cc lines 67-81: MediaSource::MediaSource()
MediaSourceInit ==
    /\ ready_state = "CLOSED"
    /\ source_buffers_ = <<>>
    /\ video_element_ = "null"
    /\ events = <<>>
    /\ controller_ = <<>>
    /\ last_call = NoCall

Init == InitFor({1}) /\ iv_step = NoIvStep /\ MediaSourceInit

\* one write to dest_packet->data: size bytes at offset dest, produced from
\* the bytes of packet_.data at offset from, by memcpy or by the CDM
DestWrite(by, offset, size, from) ==
    [by |-> by, offset |-> offset, size |-> size, from |-> from]

\* return st;
Return(f, st) ==
    /\ pc' = [pc EXCEPT ![f] = "done"]
    /\ status' = [status EXCEPT ![f] = st]

\* the subsample of the current iteration
Cur(f) == enc_info[f].subsamples[i[f] + 1]

\* one cdm->Decrypt call as the CDM sees it (its block_offset, iv, data and
\* output arguments), with the subsample it is for (0: the whole packet)
\* and the status the CDM answers
CdmCall(f, offset, iv, data_offset, size, dest_offset, subsample, answer) ==
    [scheme |-> scheme[f],
     crypt_byte_block |-> enc_info[f].crypt_byte_block,
     skip_byte_block |-> enc_info[f].skip_byte_block,
     block_offset |-> offset,
     iv |-> iv,
     data_offset |-> data_offset,
     data |-> Bytes(packet_[f], data_offset, size),
     dest_offset |-> dest_offset,
     subsample |-> subsample,
     status |-> answer]

\* lines 98-112: fetch and decode the encryption info
GetSideData(f) ==
    /\ pc[f] = "start"
    /\ CASE side_data[f] = "absent" -> Return(f, "UnknownError")
         [] side_data[f] \in {"malformed", "nomem"} -> Return(f, "OutOfMemory")
         [] OTHER -> pc' = [pc EXCEPT ![f] = "classify"] /\ UNCHANGED status
    /\ UNCHANGED <<frame, locals, output, cdm_calls>>

\* lines 114-141: the switch on enc_info->scheme
Classify(f) ==
    /\ pc[f] = "classify"
    /\ LET c == ClassifyScheme(enc_info[f].scheme, enc_info[f].crypt_byte_block,
                               enc_info[f].skip_byte_block)
       IN  IF c.status # "Success"
           THEN Return(f, c.status) /\ UNCHANGED scheme
           ELSE /\ scheme' = [scheme EXCEPT ![f] = c.scheme]
                /\ pc' = [pc EXCEPT ![f] = "dispatch"]
                /\ UNCHANGED status
    /\ UNCHANGED <<frame, i, src, dest, total_size, block_offset, cur_iv,
                   output, cdm_calls>>

\* Mutant of DecryptWholePacket: the call stops one AES block short of the
\* end of the packet.
DecryptWholePacket_BlockShort(f) ==
    /\ pc[f] = "dispatch"
    /\ Len(enc_info[f].subsamples) = 0
    /\ LET size == IF Len(packet_[f]) >= kAesBlockSize
                   THEN Len(packet_[f]) - kAesBlockSize
                   ELSE 0
       IN  \E answer \in DecryptStatus :
              /\ cdm_calls' = [cdm_calls EXCEPT ![f] =
                    Append(@, CdmCall(f, 0, enc_info[f].iv, 0, size, 0, 0, answer))]
              /\ IF answer = "Success"
                 THEN /\ dest_packet' = [dest_packet EXCEPT ![f] =
                            WriteAt(@, 0, CdmOutput(cdm[f], Bytes(packet_[f], 0, size)))]
                      /\ dest_writes' = [dest_writes EXCEPT ![f] =
                            Append(@, DestWrite("cdm", 0, size, 0))]
                      /\ Return(f, "Success")
                 ELSE /\ Return(f, MapDecryptStatus(answer))
                      /\ UNCHANGED output
    /\ UNCHANGED <<frame, locals>>

\* lines 143-159, 251: subsample_count == 0, one CDM call on the whole packet
DecryptWholePacket(f) ==
    /\ pc[f] = "dispatch"
    /\ Len(enc_info[f].subsamples) = 0
    /\ \E answer \in DecryptStatus :
          /\ cdm_calls' = [cdm_calls EXCEPT ![f] =
                Append(@, CdmCall(f, 0, enc_info[f].iv, 0, Len(packet_[f]), 0, 0,
                                  answer))]
          /\ IF answer = "Success"
             THEN /\ dest_packet' = [dest_packet EXCEPT ![f] =
                        WriteAt(@, 0, CdmOutput(cdm[f], packet_[f]))]
                  /\ dest_writes' = [dest_writes EXCEPT ![f] =
                        Append(@, DestWrite("cdm", 0, Len(packet_[f]), 0))]
                  /\ Return(f, "Success")
             ELSE /\ Return(f, MapDecryptStatus(answer))
                  /\ UNCHANGED output
    /\ UNCHANGED <<frame, locals>>

\* Mutant of BeginSubsamples: cur_iv is one vector shared by all calls.
BeginSubsamples_SharedIv(f) ==
    /\ pc[f] = "dispatch"
    /\ Len(enc_info[f].subsamples) # 0
    /\ src' = [src EXCEPT ![f] = 0]
    /\ dest' = [dest EXCEPT ![f] = 0]
    /\ total_size' = [total_size EXCEPT ![f] = Len(packet_[f])]
    /\ block_offset' = [block_offset EXCEPT ![f] = 0]
    /\ cur_iv' = [g \in DOMAIN cur_iv |-> enc_info[f].iv]
    /\ i' = [i EXCEPT ![f] = 0]
    /\ pc' = [pc EXCEPT ![f] = "loop"]
    /\ UNCHANGED <<frame, scheme, output, status, cdm_calls>>

\* lines 160-165: the locals of the subsample walk
BeginSubsamples(f) ==
    /\ pc[f] = "dispatch"
    /\ Len(enc_info[f].subsamples) # 0
    /\ src' = [src EXCEPT ![f] = 0]
    /\ dest' = [dest EXCEPT ![f] = 0]
    /\ total_size' = [total_size EXCEPT ![f] = Len(packet_[f])]
    /\ block_offset' = [block_offset EXCEPT ![f] = 0]
    /\ cur_iv' = [cur_iv EXCEPT ![f] = enc_info[f].iv]
    /\ i' = [i EXCEPT ![f] = 0]
    /\ pc' = [pc EXCEPT ![f] = "loop"]
    /\ UNCHANGED <<frame, scheme, output, status, cdm_calls>>

\* lines 166-175: the subsample does not fit in what is left of the packet
RejectSubsample(f) ==
    /\ pc[f] = "loop"
    /\ i[f] < Len(enc_info[f].subsamples)
    /\ ~SubsampleFits(ToU32(total_size[f]), ToU32(Cur(f).bytes_of_clear_data),
                      ToU32(Cur(f).bytes_of_protected_data))
    /\ Return(f, "InvalidContainerData")
    /\ UNCHANGED <<frame, locals, output, cdm_calls>>

\* Mutant of CopyClear: the CDM is called on empty protected regions too.
CopyClear_NoSkip(f) ==
    /\ pc[f] = "loop"
    /\ i[f] < Len(enc_info[f].subsamples)
    /\ SubsampleFits(ToU32(total_size[f]), ToU32(Cur(f).bytes_of_clear_data),
                     ToU32(Cur(f).bytes_of_protected_data))
    /\ LET clear_bytes == Cur(f).bytes_of_clear_data
       IN  /\ dest_packet' = [dest_packet EXCEPT ![f] =
                  WriteAt(@, dest[f], Bytes(packet_[f], src[f], clear_bytes))]
           /\ dest_writes' = [dest_writes EXCEPT ![f] =
                  Append(@, DestWrite("memcpy", dest[f], clear_bytes, src[f]))]
           /\ src' = [src EXCEPT ![f] = @ + clear_bytes]
           /\ dest' = [dest EXCEPT ![f] = @ + clear_bytes]
           /\ total_size' = [total_size EXCEPT ![f] = @ - clear_bytes]
    /\ pc' = [pc EXCEPT ![f] = "cdm"] /\ UNCHANGED i
    /\ UNCHANGED <<frame, scheme, block_offset, cur_iv, status, cdm_calls>>

\* lines 166-185: copy the clear bytes; continue when nothing is protected
CopyClear(f) ==
    /\ pc[f] = "loop"
    /\ i[f] < Len(enc_info[f].subsamples)
    /\ SubsampleFits(ToU32(total_size[f]), ToU32(Cur(f).bytes_of_clear_data),
                     ToU32(Cur(f).bytes_of_protected_data))
    /\ LET clear_bytes == Cur(f).bytes_of_clear_data
       IN  /\ dest_packet' = [dest_packet EXCEPT ![f] =
                  WriteAt(@, dest[f], Bytes(packet_[f], src[f], clear_bytes))]
           /\ dest_writes' = [dest_writes EXCEPT ![f] =
                  Append(@, DestWrite("memcpy", dest[f], clear_bytes, src[f]))]
           /\ src' = [src EXCEPT ![f] = @ + clear_bytes]
           /\ dest' = [dest EXCEPT ![f] = @ + clear_bytes]
           /\ total_size' = [total_size EXCEPT ![f] = @ - clear_bytes]
    /\ IF Cur(f).bytes_of_protected_data = 0
       THEN i' = [i EXCEPT ![f] = @ + 1] /\ UNCHANGED pc
       ELSE pc' = [pc EXCEPT ![f] = "cdm"] /\ UNCHANGED i
    /\ UNCHANGED <<frame, scheme, block_offset, cur_iv, status, cdm_calls>>

\* lines 188-203: the CDM call on the protected bytes and the switch on its status
CdmDecrypt(f) ==
    /\ pc[f] = "cdm"
    /\ LET protected_bytes == Cur(f).bytes_of_protected_data
       IN  \E answer \in DecryptStatus :
              /\ cdm_calls' = [cdm_calls EXCEPT ![f] =
                    Append(@, CdmCall(f, block_offset[f], cur_iv[f], src[f],
                                      protected_bytes, dest[f], i[f] + 1, answer))]
              /\ IF answer = "Success"
                 THEN /\ dest_packet' = [dest_packet EXCEPT ![f] =
                            WriteAt(@, dest[f],
                                    CdmOutput(cdm[f], Bytes(packet_[f], src[f],
                                                            protected_bytes)))]
                      /\ dest_writes' = [dest_writes EXCEPT ![f] =
                            Append(@, DestWrite("cdm", dest[f], protected_bytes,
                                                src[f]))]
                      /\ pc' = [pc EXCEPT ![f] = "update"]
                      /\ UNCHANGED status
                 ELSE /\ Return(f, MapDecryptStatus(answer))
                      /\ UNCHANGED output
    /\ UNCHANGED <<frame, locals>>

\* Mutant of Advance: dest is not moved past the CDM's output.
Advance_DestBehind(f) ==
    LET protected_bytes == Cur(f).bytes_of_protected_data
    IN  /\ src' = [src EXCEPT ![f] = @ + protected_bytes]
        /\ dest' = dest
        /\ total_size' = [total_size EXCEPT ![f] = @ - protected_bytes]
        /\ i' = [i EXCEPT ![f] = @ + 1]
        /\ pc' = [pc EXCEPT ![f] = "loop"]

\* lines 240-242 and i++
Advance(f) ==
    LET protected_bytes == Cur(f).bytes_of_protected_data
    IN  /\ src' = [src EXCEPT ![f] = @ + protected_bytes]
        /\ dest' = [dest EXCEPT ![f] = @ + protected_bytes]
        /\ total_size' = [total_size EXCEPT ![f] = @ - protected_bytes]
        /\ i' = [i EXCEPT ![f] = @ + 1]
        /\ pc' = [pc EXCEPT ![f] = "loop"]

\* Is the division by patt_size a division by zero?
DividesByZero(f) ==
    /\ enc_info[f].scheme = kCensScheme
    /\ enc_info[f].crypt_byte_block + enc_info[f].skip_byte_block = 0

\* lines 205-225, 240-242: 'cenc' and 'cens' add to the counter.  A division
\* by zero that does not trap leaves increment 0.
IncrementCounter(f) ==
    /\ pc[f] = "update"
    /\ enc_info[f].scheme \in {kCencScheme, kCensScheme}
    /\ ~IvAtThrows(cur_iv[f])
    /\ LET protected_bytes == Cur(f).bytes_of_protected_data
           increment ==
              IF enc_info[f].scheme = kCencScheme
              THEN CencIncrement(block_offset[f], protected_bytes)
              ELSE IF DividesByZero(f)
                   THEN 0
                   ELSE CensIncrement(protected_bytes, enc_info[f].crypt_byte_block,
                                      enc_info[f].skip_byte_block)
       IN  /\ cur_iv' = [cur_iv EXCEPT ![f] = IncrementIv(ToU32(increment), @)]
           /\ block_offset' = [block_offset EXCEPT ![f] =
                                  NextBlockOffset(@, protected_bytes)]
    /\ Advance(f)
    /\ UNCHANGED <<frame, scheme, output, status, cdm_calls>>

\* lines 213-224, 41-43: Decrypt does not return: the division by a zero
\* pattern_size traps, or IncrementIv's iv->at(8) throws on a short IV.
Abort(f) ==
    /\ pc[f] = "update"
    /\ enc_info[f].scheme \in {kCencScheme, kCensScheme}
    /\ DividesByZero(f) \/ IvAtThrows(cur_iv[f])
    /\ pc' = [pc EXCEPT ![f] = "aborted"]
    /\ UNCHANGED <<frame, locals, output, status, cdm_calls>>

\* lines 226-237, 240-242: 'cbc1' chains on the last encrypted block
ChainCbc1(f) ==
    /\ pc[f] = "update"
    /\ enc_info[f].scheme = kCbc1Scheme
    /\ IF Cbc1Rejects(Cur(f).bytes_of_protected_data)
       THEN /\ Return(f, "InvalidContainerData")
            /\ UNCHANGED locals
       ELSE /\ cur_iv' = [cur_iv EXCEPT ![f] =
                  Cbc1NextIv(packet_[f], src[f], Cur(f).bytes_of_protected_data)]
            /\ Advance(f)
            /\ UNCHANGED <<scheme, block_offset, status>>
    /\ UNCHANGED <<frame, output, cdm_calls>>

\* Mutant of KeepIvCbcs: 'cbcs' is handled as a counter scheme.
KeepIvCbcs_AsCounter(f) ==
    /\ pc[f] = "update"
    /\ enc_info[f].scheme = kCbcsScheme
    /\ cur_iv' = [cur_iv EXCEPT ![f] =
          IF IvAtThrows(@) THEN @
          ELSE IncrementIv(ToU32(CencIncrement(block_offset[f],
                                               Cur(f).bytes_of_protected_data)), @)]
    /\ block_offset' = [block_offset EXCEPT ![f] =
          NextBlockOffset(@, Cur(f).bytes_of_protected_data)]
    /\ Advance(f)
    /\ UNCHANGED <<frame, scheme, output, status, cdm_calls>>

\* lines 238-242: 'cbcs' uses constant-IV
KeepIvCbcs(f) ==
    /\ pc[f] = "update"
    /\ enc_info[f].scheme = kCbcsScheme
    /\ Advance(f)
    /\ UNCHANGED <<frame, scheme, block_offset, cur_iv, output, status,
                   cdm_calls>>

\* lines 166, 245-251: the loop ends
Finish(f) ==
    /\ pc[f] = "loop"
    /\ i[f] >= Len(enc_info[f].subsamples)
    /\ Return(f, FinalStatus(total_size[f]))
    /\ UNCHANGED <<frame, locals, output, cdm_calls>>

Next ==
    \/ \E f \in DOMAIN pc : GetSideData(f)
    \/ \E f \in DOMAIN pc : Classify(f)
    \/ \E f \in DOMAIN pc : DecryptWholePacket(f)
    \/ \E f \in DOMAIN pc : BeginSubsamples(f)
    \/ \E f \in DOMAIN pc : RejectSubsample(f)
    \/ \E f \in DOMAIN pc : CopyClear(f)
    \/ \E f \in DOMAIN pc : CdmDecrypt(f)
    \/ \E f \in DOMAIN pc : IncrementCounter(f)
    \/ \E f \in DOMAIN pc : Abort(f)
    \/ \E f \in DOMAIN pc : ChainCbc1(f)
    \/ \E f \in DOMAIN pc : KeepIvCbcs(f)
    \/ \E f \in DOMAIN pc : Finish(f)

Spec == Init /\ [][Next]_vars

-----------------------------------------------------------------------------
(* IncrementIv on its own: a chain of calls on one 16-byte IV *)

MaxIncrements == 2      \* calls of IncrementIv in one chain

\* uint32_t count: 0, 1, 255, 256, 2^16 - 1, 2^16, 2^31, 2^32 - 1
Counts32 ==
    {ToU32(0), ToU32(1), ToU32(255), ToU32(256), <<0, Half - 1>>, <<1, 0>>,
     <<Half \div 2, 0>>, Max32}

\* 16-byte IVs: counter 0, low word 2^32 - 1, counter 2^64 - 1, low word
\* 2^32 - 2 under a high word of 2^32 - 1, bytes that all differ
CounterIvs ==
    { Zeros(16),
      <<1, 2, 3, 4, 5, 6, 7, 8>> \o Zeros(4) \o Ones(4),
      <<1, 2, 3, 4, 5, 6, 7, 8>> \o Ones(8),
      Ones(8) \o Ones(4) \o <<255, 255, 255, 254>>,
      <<16, 32, 48, 64, 80, 96, 112, 128, 9, 10, 11, 12, 13, 14, 15, 255>> }

InitIv ==
    /\ InitFor({})
    /\ iv_step \in {[n |-> 0, count |-> ToU32(0), iv |-> v, result |-> v] :
                        v \in CounterIvs}
    /\ MediaSourceInit

\* IncrementIv(count, &iv) on the IV the last call left
ApplyIncrementIv ==
    /\ iv_step.n < MaxIncrements
    /\ \E count \in Counts32 :
          iv_step' = [n |-> iv_step.n + 1, count |-> count,
                      iv |-> iv_step.result,
                      result |-> IncrementIv(count, iv_step.result)]
    /\ UNCHANGED <<side_data, enc_info, packet_, cdm, output, pc, locals,
                   status, cdm_calls, media_source>>

NextIv == ApplyIncrementIv

SpecIv == InitIv /\ [][NextIv]_vars

-----------------------------------------------------------------------------
(* Two Decrypt calls on two frames, on two threads; then the first frame    *)
(* again, on its own                                                        *)

Subsample(clear_bytes, protected_bytes) ==
    [bytes_of_clear_data |-> clear_bytes,
     bytes_of_protected_data |-> protected_bytes]

EncInfo(tag, crypt_byte_block, skip_byte_block, iv, subsamples) ==
    [scheme |-> tag, crypt_byte_block |-> crypt_byte_block,
     skip_byte_block |-> skip_byte_block, iv |-> iv, subsamples |-> subsamples]

\* Frames that between them take every path of Decrypt.  Under 'cens' with
\* pattern 0:0 what one call does is not determined by its frame and the
\* CDM's answers; no such frame with protected bytes is in this set.
ThreadFrames ==
    { [side_data |-> "ok", off |-> 0, cdm |-> "cipher",
       enc_info |-> EncInfo(kCencScheme, 0, 0,
                            <<1, 2, 3, 4, 5, 6, 7, 8>> \o Zeros(4) \o Ones(4),
                            <<Subsample(4, 20), Subsample(0, 8)>>)],
      [side_data |-> "ok", off |-> 0, cdm |-> "identity",
       enc_info |-> EncInfo(kCbc1Scheme, 0, 0, Zeros(16),
                            <<Subsample(0, 32), Subsample(4, 0), Subsample(0, 32)>>)],
      [side_data |-> "ok", off |-> 1, cdm |-> "cipher",
       enc_info |-> EncInfo(kCbcsScheme, 1, 1, <<1, 2, 3, 4, 5, 6, 7, 8>> \o Ones(8),
                            <<Subsample(0, 8), Subsample(4, 0)>>)],
      [side_data |-> "ok", off |-> 0, cdm |-> "cipher",
       enc_info |-> EncInfo(kCensScheme, 1, 1, Zeros(16),
                            <<Subsample(0, 32), Subsample(0, 32)>>)],
      [side_data |-> "ok", off |-> 0, cdm |-> "cipher",
       enc_info |-> EncInfo(kCencScheme, 0, 0, <<1, 2, 3, 4, 5, 6, 7, 8>>,
                            <<Subsample(0, 8)>>)],
      [side_data |-> "ok", off |-> 1, cdm |-> "identity",
       enc_info |-> EncInfo(kCensScheme, 0, 0, Zeros(16), <<>>)],
      [side_data |-> "ok", off |-> 0 - 1, cdm |-> "cipher",
       enc_info |-> EncInfo(kCencScheme, 0, 0, Zeros(16), <<Subsample(4, 20)>>)],
      [side_data |-> "absent", off |-> 1, cdm |-> "cipher", enc_info |-> NoEncInfo] }

\* Calls "a" and "b" run on two threads; call "alone" is Decrypt on a's
\* frame with no other call in progress.
InitThreads ==
    /\ \E fa \in ThreadFrames, fb \in ThreadFrames :
          InitOn([a |-> fa, b |-> fb, alone |-> fa])
    /\ iv_step = NoIvStep
    /\ MediaSourceInit

Terminated(f) == pc[f] \in {"done", "aborted"}

\* the CDM gives call "alone" the answers it gave call "a"
SameAnswers ==
    \A k \in 1..Len(cdm_calls["alone"]) :
        k <= Len(cdm_calls["a"]) =>
            cdm_calls["alone"][k].status = cdm_calls["a"][k].status

\* step A of call f: the threads of "a" and "b" take steps in any order;
\* "alone" starts when both have ended
Turn(f, A) ==
    /\ f = "alone" => Terminated("a") /\ Terminated("b")
    /\ A
    /\ f = "alone" => SameAnswers'

NextThreads ==
    \/ \E f \in DOMAIN pc : Turn(f, GetSideData(f))
    \/ \E f \in DOMAIN pc : Turn(f, Classify(f))
    \/ \E f \in DOMAIN pc : Turn(f, DecryptWholePacket(f))
    \/ \E f \in DOMAIN pc : Turn(f, BeginSubsamples(f))
    \/ \E f \in DOMAIN pc : Turn(f, RejectSubsample(f))
    \/ \E f \in DOMAIN pc : Turn(f, CopyClear(f))
    \/ \E f \in DOMAIN pc : Turn(f, CdmDecrypt(f))
    \/ \E f \in DOMAIN pc : Turn(f, IncrementCounter(f))
    \/ \E f \in DOMAIN pc : Turn(f, Abort(f))
    \/ \E f \in DOMAIN pc : Turn(f, ChainCbc1(f))
    \/ \E f \in DOMAIN pc : Turn(f, KeepIvCbcs(f))
    \/ \E f \in DOMAIN pc : Turn(f, Finish(f))

SpecThreads == InitThreads /\ [][NextThreads]_vars

-----------------------------------------------------------------------------
(* MediaSource (src/shaka/src/js/mse/media_source.cc): the ready state, the *)
(* source buffers and the video element under the calls of script          *)
(* (addSourceBuffer, endOfStream), of the video element (OpenMediaSource,  *)
(* CloseMediaSource) and of the source buffers' own operations             *)

MaxCalls == 5           \* calls on one MediaSource

SourceTypes == {"Audio", "Video"}

decrypt_vars == <<side_data, enc_info, packet_, cdm, iv_step, pc, locals,
                  output, status, cdm_calls>>

\* a failed DCHECK has ended the process
Aborted == last_call.result = "abort"

CanCall == ~Aborted /\ last_call.n < MaxCalls

Call(op, error, result) ==
    [n |-> last_call.n + 1, op |-> op, error |-> error, result |-> result]

InitMediaSource == InitFor({}) /\ iv_step = NoIvStep /\ MediaSourceInit

\* lines 113-130; add_status is what controller_.AddSource answers; with
\* Success for a source type that has a buffer the DCHECK of line 127 fails,
\* and a build without DCHECKs replaces the buffer
AddSourceBuffer(source_type, add_status) ==
    /\ CanCall
    /\ controller_' = Append(controller_, "AddSource")
    /\ IF add_status \in {"NotSupported", "NotAllowed"}
       THEN /\ last_call' = Call("AddSourceBuffer", FALSE, "NotSupportedError")
            /\ UNCHANGED source_buffers_
       ELSE /\ source_buffers_' =
                  [t \in DOMAIN source_buffers_ \cup {source_type} |->
                      IF t = source_type THEN FALSE ELSE source_buffers_[t]]
            /\ last_call' = Call("AddSourceBuffer", FALSE, "SourceBuffer")
    /\ UNCHANGED <<ready_state, video_element_, events, decrypt_vars>>

\* a SourceBuffer starts or ends an update: SourceBuffer::updating changes
SetUpdating(source_type, updating) ==
    /\ CanCall
    /\ source_type \in DOMAIN source_buffers_
    /\ source_buffers_[source_type] # updating
    /\ source_buffers_' = [source_buffers_ EXCEPT ![source_type] = updating]
    /\ last_call' = Call("SourceBuffer", FALSE, "void")
    /\ UNCHANGED <<ready_state, video_element_, events, controller_,
                   decrypt_vars>>

\* Mutant of EndOfStream: the ready state is not tested.
EndOfStream_AnyState(error) ==
    /\ CanCall
    /\ IF \E t \in DOMAIN source_buffers_ : source_buffers_[t]
       THEN /\ last_call' = Call("EndOfStream", error, "InvalidStateError")
            /\ UNCHANGED <<ready_state, events, controller_>>
       ELSE IF error
       THEN /\ last_call' = Call("EndOfStream", error, "NotSupportedError")
            /\ UNCHANGED <<ready_state, events, controller_>>
       ELSE /\ ready_state' = "ENDED"
            /\ events' = Append(events, "SourceEnded")
            /\ controller_' = Append(controller_, "EndOfStream")
            /\ last_call' = Call("EndOfStream", error, "void")
    /\ UNCHANGED <<source_buffers_, video_element_, decrypt_vars>>

\* lines 132-155; error: the optional argument has a value
EndOfStream(error) ==
    /\ CanCall
    /\ IF ready_state # "OPEN"
       THEN /\ last_call' = Call("EndOfStream", error, "InvalidStateError")
            /\ UNCHANGED <<ready_state, events, controller_>>
       ELSE IF \E t \in DOMAIN source_buffers_ : source_buffers_[t]
       THEN /\ last_call' = Call("EndOfStream", error, "InvalidStateError")
            /\ UNCHANGED <<ready_state, events, controller_>>
       ELSE IF error
       THEN /\ last_call' = Call("EndOfStream", error, "NotSupportedError")
            /\ UNCHANGED <<ready_state, events, controller_>>
       ELSE /\ ready_state' = "ENDED"
            /\ events' = Append(events, "SourceEnded")
            /\ controller_' = Append(controller_, "EndOfStream")
            /\ last_call' = Call("EndOfStream", error, "void")
    /\ UNCHANGED <<source_buffers_, video_element_, decrypt_vars>>

\* lines 181-187; with ready_state not CLOSED the DCHECK fails, and a build
\* without DCHECKs goes on
OpenMediaSource ==
    /\ CanCall
    /\ ready_state' = "OPEN"
    /\ video_element_' = "video"
    /\ events' = Append(events, "SourceOpen")
    /\ last_call' = Call("OpenMediaSource", FALSE, "void")
    /\ UNCHANGED <<source_buffers_, controller_, decrypt_vars>>

\* lines 189-203; with ready_state CLOSED the DCHECK fails, and a build
\* without DCHECKs goes on
CloseMediaSource ==
    /\ CanCall
    /\ ready_state' = "CLOSED"
    /\ video_element_' = "null"
    /\ controller_' = Append(controller_, "Reset")
    /\ source_buffers_' = <<>>
    /\ events' = Append(events, "SourceClose")
    /\ last_call' = Call("CloseMediaSource", FALSE, "void")
    /\ UNCHANGED decrypt_vars

\* lines 127, 182, 190: a build with DCHECKs ends the process
DcheckFails(op) ==
    /\ CanCall
    /\ \/ /\ op = "OpenMediaSource" /\ ready_state # "CLOSED"
          /\ UNCHANGED controller_
       \/ /\ op = "CloseMediaSource" /\ ready_state = "CLOSED"
          /\ UNCHANGED controller_
       \/ /\ op = "AddSourceBuffer" /\ source_buffers_ # <<>>
          /\ controller_' = Append(controller_, "AddSource")
    /\ last_call' = Call(op, FALSE, "abort")
    /\ UNCHANGED <<ready_state, source_buffers_, video_element_, events,
                   decrypt_vars>>

NextMediaSource ==
    \/ \E t \in SourceTypes, st \in {"Success", "NotSupported", "NotAllowed"} :
          AddSourceBuffer(t, st)
    \/ \E t \in SourceTypes, u \in BOOLEAN : SetUpdating(t, u)
    \/ \E error \in BOOLEAN : EndOfStream(error)
    \/ OpenMediaSource
    \/ CloseMediaSource
    \/ \E op \in {"OpenMediaSource", "CloseMediaSource", "AddSourceBuffer"} :
          DcheckFails(op)

SpecMediaSource == InitMediaSource /\ [][NextMediaSource]_vars

-----------------------------------------------------------------------------
(* Vocabulary of the properties *)

Calls == DOMAIN pc

Table(f) == enc_info[f].subsamples

Returned(f) == pc[f] = "done"

PatternIsZero(f) ==
    enc_info[f].crypt_byte_block = 0 /\ enc_info[f].skip_byte_block = 0

\* the side data decodes, the scheme tag is one of the four and the pattern
\* fields are legal for it
Accepted(f) ==
    /\ side_data[f] = "ok"
    /\ enc_info[f].scheme \in {kCencScheme, kCensScheme, kCbc1Scheme, kCbcsScheme}
    /\ enc_info[f].scheme \in {kCencScheme, kCbc1Scheme} => PatternIsZero(f)

AllCdmCallsSucceeded(f) ==
    \A k \in 1..Len(cdm_calls[f]) : cdm_calls[f][k].status = "Success"

ProtectedCount(f) ==
    Cardinality({k \in 1..Len(Table(f)) : Table(f)[k].bytes_of_protected_data # 0})

-----------------------------------------------------------------------------
(* C1: length conservation on Success *)

\* C1, as stated: whenever Decrypt returns Success, the subsample table's
\* total of clear and protected bytes equals packet_.size, whatever the
\* subsample count.
C1_SuccessImpliesTotal ==
    \A f \in Calls :
        (Returned(f) /\ status[f] = "Success")
            => TableTotal(Table(f)) = Len(packet_[f])

\* C1, amended: whenever Decrypt returns Success on a non-empty subsample
\* table, the table's total equals packet_.size (an empty table is the
\* whole-packet path, which checks no length).
C1_SuccessImpliesTotalNonEmpty ==
    \A f \in Calls :
        (Returned(f) /\ status[f] = "Success" /\ Len(Table(f)) # 0)
            => TableTotal(Table(f)) = Len(packet_[f])

\* C1 witness: a walk over three subsamples, CDM calls among them, has
\* returned Success.
C1_Witness ==
    \E f \in Calls :
        /\ Returned(f) /\ status[f] = "Success"
        /\ Len(Table(f)) = 3
        /\ Len(cdm_calls[f]) >= 2
        /\ Len(packet_[f]) > 0

-----------------------------------------------------------------------------
(* C2: a table whose total is not the payload size *)

\* C2, as stated: an accepted frame whose table total differs from
\* packet_.size makes Decrypt return InvalidContainerData, whatever the CDM
\* answers.
C2_MismatchIsInvalid ==
    \A f \in Calls :
        (Accepted(f) /\ TableTotal(Table(f)) # Len(packet_[f]) /\ Returned(f))
            => status[f] = "InvalidContainerData"

\* C2, amended: for an accepted frame with a non-empty table whose total
\* differs from packet_.size, a Decrypt that returns returns
\* InvalidContainerData when every CDM call it made answered Success, and
\* otherwise the mapped status of the one call that did not; never Success.
C2_MismatchIsInvalidUnlessCdmFails ==
    \A f \in Calls :
        (Accepted(f) /\ Len(Table(f)) # 0
            /\ TableTotal(Table(f)) # Len(packet_[f]) /\ Returned(f))
            => /\ status[f] # "Success"
               /\ AllCdmCallsSucceeded(f) => status[f] = "InvalidContainerData"
               /\ ~AllCdmCallsSucceeded(f) =>
                     status[f] \in {"NotSupported", "KeyNotFound", "UnknownError"}

\* C2 witness: bytes remain after the last subsample of a walk whose CDM
\* calls all succeeded, and Decrypt has returned InvalidContainerData.
C2_Witness ==
    \E f \in Calls :
        /\ Accepted(f) /\ Returned(f)
        /\ TableTotal(Table(f)) < Len(packet_[f])
        /\ i[f] = Len(Table(f)) /\ Len(Table(f)) # 0
        /\ Len(cdm_calls[f]) >= 1 /\ AllCdmCallsSucceeded(f)
        /\ status[f] = "InvalidContainerData"

-----------------------------------------------------------------------------
(* C3: clear-byte passthrough *)

AllClear(f) ==
    /\ Len(Table(f)) # 0
    /\ \A k \in 1..Len(Table(f)) : Table(f)[k].bytes_of_protected_data = 0
    /\ TableTotal(Table(f)) = Len(packet_[f])

\* C3: on an accepted frame (any of the four schemes) whose non-empty table
\* has only zero protected_bytes and clear_bytes summing to packet_.size,
\* Decrypt makes no CDM call, does not stop before it returns, returns
\* Success, and has then made dest_packet->data equal to packet_.data.
C3_ClearPassthrough ==
    \A f \in Calls :
        (Accepted(f) /\ AllClear(f))
            => /\ cdm_calls[f] = <<>>
               /\ pc[f] \in {"start", "classify", "dispatch", "loop", "done"}
               /\ Returned(f) =>
                     status[f] = "Success" /\ dest_packet[f] = packet_[f]

\* C3 witness: three clear-only subsamples under 'cbc1' have been copied and
\* Decrypt has returned.
C3_Witness ==
    \E f \in Calls :
        /\ Accepted(f) /\ AllClear(f) /\ Returned(f)
        /\ enc_info[f].scheme = kCbc1Scheme
        /\ Len(Table(f)) = 3
        /\ dest_packet[f] = packet_[f]

-----------------------------------------------------------------------------
(* C4: the (IV, block_offset) pairs of a counter scheme *)

IsCounterScheme(f) == enc_info[f].scheme \in {kCencScheme, kCensScheme}

\* a < b as big-endian numbers of the same length
LexLess(a, b) ==
    \E j \in 1..Len(a) : a[j] < b[j] /\ \A m \in 1..(j - 1) : a[m] = b[m]

\* (a.iv, a.block_offset) <= (b.iv, b.block_offset), block_offset the tie-break
PairLeq(a, b) ==
    LexLess(a.iv, b.iv) \/ (a.iv = b.iv /\ a.block_offset <= b.block_offset)

\* the counter in iv[8..16) plus one per AES block of the packet stays below 2^64
CounterCannotWrap(f) ==
    Len(enc_info[f].iv) = 16 =>
        LET c0 == Ntohl(Bytes(enc_info[f].iv, 8, 4))
            c1 == Ntohl(Bytes(enc_info[f].iv, 12, 4))
            blocks == ToU32(Len(packet_[f]) \div kAesBlockSize)
        IN  Lt32(c0, Max32) \/ ~Lt32(Sub32(Max32, blocks), c1)

\* C4, as stated: under 'cenc' or 'cens' the (iv, block_offset) pairs of
\* successive CDM calls never decrease, for every initial IV.
C4_PairsNeverDecrease ==
    \A f \in Calls :
        IsCounterScheme(f) =>
            \A k \in 1..(Len(cdm_calls[f]) - 1) :
                PairLeq(cdm_calls[f][k], cdm_calls[f][k + 1])

\* every protected region of the table is a whole number of AES blocks
WholeBlocksOnly(f) ==
    \A k \in 1..Len(Table(f)) :
        Table(f)[k].bytes_of_protected_data % kAesBlockSize = 0

\* C4, amended: the (iv, block_offset) pairs of successive CDM calls never
\* decrease and iv[0..8) never changes, under 'cenc' for every table and
\* under 'cens' when every protected_bytes is a multiple of 16, provided the
\* 64-bit counter in iv[8..16) does not pass 2^64-1 within the frame.
C4_PairsNeverDecreaseUnlessWrap ==
    \A f \in Calls :
        (/\ IsCounterScheme(f)
         /\ CounterCannotWrap(f)
         /\ enc_info[f].scheme = kCensScheme => WholeBlocksOnly(f)) =>
            \A k \in 1..(Len(cdm_calls[f]) - 1) :
                /\ PairLeq(cdm_calls[f][k], cdm_calls[f][k + 1])
                /\ Bytes(cdm_calls[f][k + 1].iv, 0, 8) = Bytes(enc_info[f].iv, 0, 8)

\* C4 witness: two successive calls under 'cenc', the second with a larger
\* IV after a carry out of the low 32-bit word.
C4_Witness ==
    \E f \in Calls :
        /\ enc_info[f].scheme = kCencScheme /\ CounterCannotWrap(f)
        /\ Len(cdm_calls[f]) >= 2
        /\ Bytes(cdm_calls[f][1].iv, 12, 4) = Ones(4)
        /\ LexLess(cdm_calls[f][1].iv, cdm_calls[f][2].iv)
        /\ Bytes(cdm_calls[f][2].iv, 8, 4) = <<0, 0, 0, 1>>

-----------------------------------------------------------------------------
(* C5: repeated IVs under a counter scheme *)

\* C5, as stated: under 'cenc' or 'cens' no two CDM calls of one Decrypt
\* receive the same IV.
C5_NoIvTwice ==
    \A f \in Calls :
        IsCounterScheme(f) =>
            \A j, k \in 1..Len(cdm_calls[f]) :
                j < k => cdm_calls[f][j].iv # cdm_calls[f][k].iv

\* C5, amended: under 'cenc' no two CDM calls of one Decrypt receive the
\* same (IV, block_offset) pair.
C5_NoPairTwiceCenc ==
    \A f \in Calls :
        enc_info[f].scheme = kCencScheme =>
            \A j, k \in 1..Len(cdm_calls[f]) :
                j < k => <<cdm_calls[f][j].iv, cdm_calls[f][j].block_offset>>
                            # <<cdm_calls[f][k].iv, cdm_calls[f][k].block_offset>>

\* C5 witness: under 'cenc' a protected region shorter than an AES block is
\* followed by a CDM call with the same IV and another block_offset.
C5_Witness ==
    \E f \in Calls :
        /\ enc_info[f].scheme = kCencScheme
        /\ Len(cdm_calls[f]) >= 2
        /\ Len(cdm_calls[f][1].data) < kAesBlockSize
        /\ cdm_calls[f][1].iv = cdm_calls[f][2].iv
        /\ cdm_calls[f][1].block_offset # cdm_calls[f][2].block_offset

-----------------------------------------------------------------------------
(* C6: 'cbc1' chaining *)

LastBlock(bytes) == SubSeq(bytes, Len(bytes) - kAesBlockSize + 1, Len(bytes))

\* C6: under 'cbc1' the first CDM call receives the packet's IV and every
\* later one the last 16 bytes of the ciphertext passed to the call before it.
C6_Cbc1Chaining ==
    \A f \in Calls :
        enc_info[f].scheme = kCbc1Scheme =>
            \A k \in 1..Len(cdm_calls[f]) :
                cdm_calls[f][k].iv =
                    IF k = 1 THEN enc_info[f].iv
                    ELSE LastBlock(cdm_calls[f][k - 1].data)

\* C6 witness: two CDM calls under 'cbc1' with a clear-only subsample between
\* them, the CDM's output differing from its input.
C6_Witness ==
    \E f \in Calls :
        /\ enc_info[f].scheme = kCbc1Scheme
        /\ cdm[f] = "cipher"
        /\ Len(cdm_calls[f]) = 2
        /\ cdm_calls[f][1].subsample = 1 /\ cdm_calls[f][2].subsample = 3
        /\ cdm_calls[f][2].iv = Bytes(packet_[f], 16, 16)

-----------------------------------------------------------------------------
(* C7: 'cbcs' constancy *)

\* C7: under 'cbcs' every CDM call receives the packet's IV and block_offset 0.
C7_CbcsConstantIv ==
    \A f \in Calls :
        enc_info[f].scheme = kCbcsScheme =>
            \A k \in 1..Len(cdm_calls[f]) :
                /\ cdm_calls[f][k].iv = enc_info[f].iv
                /\ cdm_calls[f][k].block_offset = 0

\* C7 witness: the third CDM call of a patterned 'cbcs' frame.
C7_Witness ==
    \E f \in Calls :
        /\ enc_info[f].scheme = kCbcsScheme
        /\ ~PatternIsZero(f)
        /\ Len(cdm_calls[f]) = 3
        /\ cdm_calls[f][3].iv = enc_info[f].iv

-----------------------------------------------------------------------------
(* C8: identity CDM *)

\* scheme and pattern accepted, the table empty or summing to packet_.size,
\* under 'cbc1' every non-zero protected_bytes a multiple of 16
WellFormed(f) ==
    /\ Accepted(f)
    /\ Len(Table(f)) = 0 \/ TableTotal(Table(f)) = Len(packet_[f])
    /\ enc_info[f].scheme = kCbc1Scheme =>
          \A k \in 1..Len(Table(f)) :
              Table(f)[k].bytes_of_protected_data % kAesBlockSize = 0

\* C8 (for packets with a 16-byte IV): with a CDM that answers Success and
\* copies its input, Decrypt on a well-formed frame does not stop before it
\* returns, returns Success, and has then made dest_packet->data equal to
\* packet_.data.
C8_IdentityCdm ==
    \A f \in Calls :
        (/\ WellFormed(f) /\ Len(enc_info[f].iv) = 16
         /\ cdm[f] = "identity" /\ AllCdmCallsSucceeded(f))
            => /\ pc[f] # "aborted"
               /\ Returned(f) =>
                     status[f] = "Success" /\ dest_packet[f] = packet_[f]

-----------------------------------------------------------------------------
(* C9: scheme classification *)

NothingDone(f) ==
    /\ cdm_calls[f] = <<>>
    /\ \A k \in 1..Len(dest_packet[f]) : dest_packet[f][k] = Unwritten
    /\ pc[f] \in {"start", "classify", "done"}

\* C9: an unknown scheme tag returns NotSupported, 'cenc' or 'cbc1' with a
\* non-zero pattern field returns InvalidContainerData, both without a CDM
\* call or a write to the destination; otherwise every CDM call gets AesCtr
\* for 'cenc' and 'cens', AesCbc for 'cbc1' and 'cbcs', and the frame's
\* pattern.
C9_SchemeClassification ==
    \A f \in Calls :
        side_data[f] = "ok" =>
            LET tag == enc_info[f].scheme IN
            CASE tag \notin {kCencScheme, kCensScheme, kCbc1Scheme, kCbcsScheme} ->
                    /\ NothingDone(f)
                    /\ Returned(f) => status[f] = "NotSupported"
              [] tag \in {kCencScheme, kCbc1Scheme} /\ ~PatternIsZero(f) ->
                    /\ NothingDone(f)
                    /\ Returned(f) => status[f] = "InvalidContainerData"
              [] OTHER ->
                    /\ pc[f] \notin {"start", "classify"} =>
                          scheme[f] = IF tag \in {kCencScheme, kCensScheme}
                                      THEN "AesCtr" ELSE "AesCbc"
                    /\ \A k \in 1..Len(cdm_calls[f]) :
                          /\ cdm_calls[f][k].scheme =
                                IF tag \in {kCencScheme, kCensScheme}
                                THEN "AesCtr" ELSE "AesCbc"
                          /\ cdm_calls[f][k].crypt_byte_block =
                                enc_info[f].crypt_byte_block
                          /\ cdm_calls[f][k].skip_byte_block =
                                enc_info[f].skip_byte_block

\* C9 witness: 'cbc1' with skip_byte_block alone non-zero has returned
\* InvalidContainerData on a frame that has protected bytes.
C9_Witness ==
    \E f \in Calls :
        /\ side_data[f] = "ok" /\ Returned(f)
        /\ enc_info[f].scheme = kCbc1Scheme
        /\ enc_info[f].crypt_byte_block = 0 /\ enc_info[f].skip_byte_block # 0
        /\ ProtectedCount(f) >= 1
        /\ status[f] = "InvalidContainerData"

-----------------------------------------------------------------------------
(* C10: CDM status mapping and fail-fast *)

\* C10: a CDM call that answers NotSupported or KeyNotFound makes Decrypt
\* return that status, any other failure UnknownError; that call is the last
\* one, Decrypt has returned with it, nothing from its output offset on has
\* been written, and the calls are for strictly increasing subsamples.
C10_FailFast ==
    \A f \in Calls :
        \A k \in 1..Len(cdm_calls[f]) :
            /\ cdm_calls[f][k].status # "Success" =>
                  /\ k = Len(cdm_calls[f])
                  /\ Returned(f)
                  /\ status[f] =
                        CASE cdm_calls[f][k].status = "NotSupported" -> "NotSupported"
                          [] cdm_calls[f][k].status = "KeyNotFound" -> "KeyNotFound"
                          [] OTHER -> "UnknownError"
                  /\ \A n \in (cdm_calls[f][k].dest_offset + 1)..Len(dest_packet[f]) :
                        dest_packet[f][n] = Unwritten
            /\ k > 1 => cdm_calls[f][k - 1].subsample < cdm_calls[f][k].subsample

\* C10 witness: the second CDM call of a walk answered KeyNotFound, with a
\* subsample left after it.
C10_Witness ==
    \E f \in Calls :
        /\ Len(cdm_calls[f]) = 2
        /\ cdm_calls[f][2].status = "KeyNotFound"
        /\ cdm_calls[f][2].subsample < Len(Table(f))
        /\ status[f] = "KeyNotFound"

-----------------------------------------------------------------------------
(* C11: the whole-packet path *)

\* the Status Decrypt returns for the CDM's answer, as the specification's
\* status table gives it
ExpectedStatus(answer) ==
    CASE answer = "Success" -> "Success"
      [] answer = "NotSupported" -> "NotSupported"
      [] answer = "KeyNotFound" -> "KeyNotFound"
      [] OTHER -> "UnknownError"

\* C11: on an accepted frame whose subsample table is empty, Decrypt makes
\* exactly one CDM call, on the whole of packet_.data with block_offset 0 and
\* the packet's IV, writes at offset 0, and returns the status that call's
\* answer maps to; the walk's locals (IV copy, block_offset, cursors,
\* remaining size) are never set up or updated, and the status is never that
\* of the length check.
C11_WholePacketPath ==
    \A f \in Calls :
        (Accepted(f) /\ Len(Table(f)) = 0) =>
            /\ pc[f] \in {"start", "classify", "dispatch", "done"}
            /\ Len(cdm_calls[f]) = (IF Returned(f) THEN 1 ELSE 0)
            /\ cur_iv[f] = <<>> /\ block_offset[f] = 0 /\ i[f] = 0
            /\ src[f] = 0 /\ dest[f] = 0 /\ total_size[f] = 0
            /\ Returned(f) =>
                  LET c == cdm_calls[f][1]
                  IN  /\ c.block_offset = 0
                      /\ c.iv = enc_info[f].iv
                      /\ c.data_offset = 0 /\ c.dest_offset = 0
                      /\ c.data = packet_[f]
                      /\ c.scheme = (IF enc_info[f].scheme \in {kCencScheme, kCensScheme}
                                     THEN "AesCtr" ELSE "AesCbc")
                      /\ c.crypt_byte_block = enc_info[f].crypt_byte_block
                      /\ c.skip_byte_block = enc_info[f].skip_byte_block
                      /\ status[f] = ExpectedStatus(c.status)

\* A frame of SizeSlack bytes with an empty table returned Success after
\* its one call.
C11_Witness ==
    \E f \in Calls :
        /\ Accepted(f) /\ Len(Table(f)) = 0 /\ Len(packet_[f]) > 0
        /\ Returned(f) /\ status[f] = "Success"
        /\ Len(cdm_calls[f]) = 1

-----------------------------------------------------------------------------
(* C12: 'cbc1' subsamples that are not whole AES blocks *)

NotWholeBlocks(n) == n < 16 \/ n % 16 # 0

\* the CDM calls of f on a subsample whose protected bytes are not whole blocks
BadCbc1Calls(f) ==
    {k \in 1..Len(cdm_calls[f]) :
        /\ cdm_calls[f][k].subsample > 0
        /\ NotWholeBlocks(Len(cdm_calls[f][k].data))}

\* C12, as stated: under 'cbc1', once the walk has handed the CDM a subsample
\* whose protected byte count is non-zero and smaller than 16 or not a
\* multiple of 16, Decrypt returns InvalidContainerData, whatever the CDM
\* answered for it.
C12_Cbc1BadSizeIsInvalid ==
    \A f \in Calls :
        (enc_info[f].scheme = kCbc1Scheme /\ Returned(f) /\ BadCbc1Calls(f) # {})
            => status[f] = "InvalidContainerData"

\* C12, amended: such a subsample is the last one the CDM is called on and
\* the walk never moves past it; Decrypt returns InvalidContainerData when
\* the CDM answered Success for it, and the mapped status of the CDM's answer
\* otherwise.
C12_Cbc1BadSizeIsInvalidAfterCdm ==
    \A f \in Calls :
        enc_info[f].scheme = kCbc1Scheme =>
            \A k \in BadCbc1Calls(f) :
                LET c == cdm_calls[f][k]
                IN  /\ k = Len(cdm_calls[f])
                    /\ pc[f] \in {"update", "done"}
                    /\ i[f] = c.subsample - 1
                    /\ Returned(f) =>
                          status[f] = (IF c.status = "Success"
                                       THEN "InvalidContainerData"
                                       ELSE ExpectedStatus(c.status))

\* A 'cbc1' frame returned InvalidContainerData after the CDM answered
\* Success for 20 protected bytes that fit in the packet, as the second call.
C12_Witness ==
    \E f \in Calls :
        /\ enc_info[f].scheme = kCbc1Scheme /\ Returned(f)
        /\ status[f] = "InvalidContainerData"
        /\ Len(cdm_calls[f]) = 2
        /\ Len(cdm_calls[f][1].data) = 32
        /\ Len(cdm_calls[f][2].data) = 20
        /\ cdm_calls[f][2].status = "Success"

-----------------------------------------------------------------------------
(* C13: the length of the working IV *)

\* C13: during the subsample walk the call's IV copy has exactly 16 bytes, and
\* so has the IV of every CDM call of the walk, for packet IVs of 8 and of 16
\* bytes; the copy of an 8-byte packet IV starts as the packet IV followed by
\* 8 zero bytes, and the counter update on it never fails.
C13_WorkingIvHas16Bytes ==
    \A f \in Calls :
        (Accepted(f) /\ Len(enc_info[f].iv) \in {8, 16} /\ ~DividesByZero(f)) =>
            /\ pc[f] \in {"loop", "cdm", "update"} => Len(cur_iv[f]) = 16
            /\ \A k \in 1..Len(cdm_calls[f]) :
                  cdm_calls[f][k].subsample > 0 => Len(cdm_calls[f][k].iv) = 16
            /\ (Len(cdm_calls[f]) > 0 /\ cdm_calls[f][1].subsample > 0
                    /\ Len(enc_info[f].iv) = 8)
                  => cdm_calls[f][1].iv = enc_info[f].iv \o Zeros(8)
            /\ pc[f] # "aborted"

-----------------------------------------------------------------------------
(* C14: IncrementIv as 64-bit big-endian addition *)

\* the 8 bytes of the 32-bit count as a big-endian 64-bit integer
CountBytes(count) ==
    <<0, 0, 0, 0, count[1] \div 256, count[1] % 256,
      count[2] \div 256, count[2] % 256>>

\* a + b mod 2^64 on big-endian 8-byte integers, byte by byte with carry
AddBytes64(a, b) ==
    LET Carry[k \in 1..9] ==
            IF k = 9 THEN 0 ELSE (a[k] + b[k] + Carry[k + 1]) \div 256
    IN  [k \in 1..8 |-> (a[k] + b[k] + Carry[k + 1]) % 256]

\* iv with the 64-bit integer in iv[8..16) replaced by itself plus count
Add64(iv, count) ==
    Bytes(iv, 0, 8) \o AddBytes64(Bytes(iv, 8, 8), CountBytes(count))

\* C14: IncrementIv(count, iv) on a 16-byte IV leaves 16 bytes whose first 8
\* are those of iv and whose last 8 are the big-endian 64-bit integer
\* (old value + count) mod 2^64, for every count and IV tried.
C14_IncrementIvAdds64 ==
    iv_step.n > 0 =>
        /\ Len(iv_step.result) = 16
        /\ Bytes(iv_step.result, 0, 8) = Bytes(iv_step.iv, 0, 8)
        /\ iv_step.result = Add64(iv_step.iv, iv_step.count)

\* IncrementIv added 2^32 - 1 to a counter of 2^64 - 1: the low word
\* overflowed, the carry overflowed the high word, and iv[0..8) is as before.
C14_Witness ==
    /\ iv_step.n > 0
    /\ iv_step.count = Max32
    /\ iv_step.iv = <<1, 2, 3, 4, 5, 6, 7, 8>> \o Ones(8)
    /\ iv_step.result =
          <<1, 2, 3, 4, 5, 6, 7, 8>> \o Zeros(4) \o <<255, 255, 255, 254>>

-----------------------------------------------------------------------------
(* C15: the destination is covered once, in order *)

\* the writes w cover [0, n) front to back with neither gap nor overlap
CoversInOrder(w, n) ==
    /\ \A k \in 1..Len(w) :
          w[k].offset = (IF k = 1 THEN 0 ELSE w[k - 1].offset + w[k - 1].size)
    /\ (IF Len(w) = 0 THEN 0 ELSE w[Len(w)].offset + w[Len(w)].size) = n

\* C15: the source and destination cursors are equal at every step and every
\* CDM call writes where it reads; when Decrypt returns Success on a
\* non-empty table, the writes to the destination cover [0, packet_.size)
\* once and in increasing order, each is a copy of the payload bytes at the
\* same indices or the output of a successful CDM call on the payload bytes
\* at the same indices, and the destination holds what they wrote.
C15_OutputCoverage ==
    \A f \in Calls :
        /\ src[f] = dest[f]
        /\ \A k \in 1..Len(cdm_calls[f]) :
              cdm_calls[f][k].dest_offset = cdm_calls[f][k].data_offset
        /\ (Returned(f) /\ status[f] = "Success" /\ Len(Table(f)) > 0) =>
              LET w == dest_writes[f]
              IN  /\ CoversInOrder(w, Len(packet_[f]))
                  /\ \A k \in 1..Len(w) :
                        /\ w[k].from = w[k].offset
                        /\ w[k].by = "memcpy" =>
                              Bytes(dest_packet[f], w[k].offset, w[k].size)
                                = Bytes(packet_[f], w[k].offset, w[k].size)
                        /\ w[k].by = "cdm" =>
                              /\ \E j \in 1..Len(cdm_calls[f]) :
                                    /\ cdm_calls[f][j].status = "Success"
                                    /\ cdm_calls[f][j].data_offset = w[k].offset
                                    /\ Len(cdm_calls[f][j].data) = w[k].size
                              /\ Bytes(dest_packet[f], w[k].offset, w[k].size)
                                    = CdmOutput(cdm[f], Bytes(packet_[f], w[k].offset,
                                                              w[k].size))
                  /\ \A k \in 1..Len(dest_packet[f]) :
                        dest_packet[f][k] # Unwritten

\* Decrypt returned Success on a table of three subsamples with clear and
\* protected bytes: five writes, memcpy and CDM in turn.
C15_Witness ==
    \E f \in Calls :
        /\ Returned(f) /\ status[f] = "Success" /\ Len(Table(f)) = 3
        /\ cdm[f] = "cipher"
        /\ Len(cdm_calls[f]) = 2
        /\ \E k \in 1..Len(dest_writes[f]) :
              dest_writes[f][k].by = "memcpy" /\ dest_writes[f][k].size > 0
                /\ dest_writes[f][k].offset > 0

-----------------------------------------------------------------------------
(* C16: the side data cannot be decoded *)

\* C16: Decrypt returns UnknownError when the encryption-info side data is
\* absent, UnknownError when it is present but cannot be parsed, and
\* OutOfMemory when decoding it fails for lack of memory; in all three cases
\* it makes no CDM call and writes nothing to the destination.
C16_SideDataErrors ==
    \A f \in Calls :
        (side_data[f] # "ok") =>
            /\ NothingDone(f)
            /\ Returned(f) =>
                  status[f] = (CASE side_data[f] = "absent" -> "UnknownError"
                                 [] side_data[f] = "malformed" -> "UnknownError"
                                 [] side_data[f] = "nomem" -> "OutOfMemory")

-----------------------------------------------------------------------------
(* C17: two calls on two threads *)

\* what the CDM is presented with in one call
Presented(c) ==
    [scheme |-> c.scheme, crypt_byte_block |-> c.crypt_byte_block,
     skip_byte_block |-> c.skip_byte_block, block_offset |-> c.block_offset,
     iv |-> c.iv, data_offset |-> c.data_offset, data |-> c.data]

\* C17: whatever the order of the steps of calls "a" and "b", when Decrypt
\* has run on a's frame on its own, with the CDM answering as it answered
\* "a", it has presented the CDM with the same sequence of scheme, pattern,
\* block_offset, IV and byte range as "a" did, has ended the same way with
\* the same status, and has left the same bytes in its destination.
C17_SameAsAlone ==
    Terminated("alone") =>
        /\ Len(cdm_calls["alone"]) = Len(cdm_calls["a"])
        /\ \A k \in 1..Len(cdm_calls["alone"]) :
              Presented(cdm_calls["alone"][k]) = Presented(cdm_calls["a"][k])
        /\ pc["alone"] = pc["a"]
        /\ status["alone"] = status["a"]
        /\ dest_packet["alone"] = dest_packet["a"]

\* "a" walked the two subsamples of the 'cenc' frame to Success while "b"
\* walked the 'cbc1' frame, and "alone" has ended too.
C17_Witness ==
    /\ Terminated("alone") /\ status["a"] = "Success"
    /\ enc_info["a"].scheme = kCencScheme /\ Len(cdm_calls["a"]) = 2
    /\ cdm_calls["a"][2].block_offset = 4
    /\ enc_info["b"].scheme = kCbc1Scheme /\ Len(cdm_calls["b"]) = 2

-----------------------------------------------------------------------------
(* C18: 'cenc' counts a block that straddles two subsamples once *)

\* the protected bytes of the subsamples of f before subsample n
ProtectedBefore(f, n) ==
    Sum([k \in 1..Len(Table(f)) |-> Table(f)[k].bytes_of_protected_data], n - 1)

\* the low 64 bits of an IV: its last 8 bytes
Low64(iv) == SubSeq(iv, Len(iv) - 7, Len(iv))

\* C18: under 'cenc', at every CDM call of the walk, with P the protected
\* bytes of all earlier subsamples, block_offset is P mod 16 and the IV is
\* the packet's IV with (P div 16) added to its low 64 bits mod 2^64, the
\* bytes before them as in the packet's IV.
C18_CencStraddling ==
    \A f \in Calls :
        (Accepted(f) /\ enc_info[f].scheme = kCencScheme) =>
            \A k \in 1..Len(cdm_calls[f]) :
                LET c == cdm_calls[f][k]
                    P == ProtectedBefore(f, c.subsample)
                    n == Len(enc_info[f].iv)
                IN  c.subsample > 0 =>
                      /\ c.block_offset = P % 16
                      /\ Len(c.iv) = n
                      /\ SubSeq(c.iv, 1, n - 8) = SubSeq(enc_info[f].iv, 1, n - 8)
                      /\ Low64(c.iv) = AddBytes64(Low64(enc_info[f].iv),
                                                  CountBytes(ToU32(P \div 16)))

\* Three 'cenc' calls on (4, 20), (0, 8), (4, 20) from a low word of
\* 2^32 - 1: the second and third calls are at offsets 4 and 12 of the same
\* block, with one IV, which is not the first call's.
C18_Witness ==
    \E f \in Calls :
        /\ enc_info[f].scheme = kCencScheme /\ Len(cdm_calls[f]) = 3
        /\ cdm_calls[f][1].iv = <<1, 2, 3, 4, 5, 6, 7, 8>> \o Zeros(4) \o Ones(4)
        /\ cdm_calls[f][2].block_offset = 4
        /\ cdm_calls[f][3].block_offset = 12
        /\ cdm_calls[f][2].iv = <<1, 2, 3, 4, 5, 6, 7, 8>> \o <<0, 0, 0, 1>> \o Zeros(4)
        /\ cdm_calls[f][3].iv = cdm_calls[f][2].iv

-----------------------------------------------------------------------------
(* C19: 'cens' with the pattern 0:0 *)

\* C19: under 'cens' with crypt_byte_block = 0 and skip_byte_block = 0, a
\* subsample with protected bytes is handled as under 'cenc': Decrypt does
\* not end abnormally in the IV update, and the counter and block_offset it
\* passes to the CDM are those of the no-pattern case.
C19_CensZeroPattern ==
    \A f \in Calls :
        (enc_info[f].scheme = kCensScheme /\ PatternIsZero(f)
            /\ side_data[f] = "ok" /\ Len(enc_info[f].iv) = 16) =>
            /\ pc[f] # "aborted"
            /\ \A k \in 1..Len(cdm_calls[f]) :
                  LET c == cdm_calls[f][k]
                      P == ProtectedBefore(f, c.subsample)
                  IN  c.subsample > 0 =>
                        /\ c.block_offset = P % 16
                        /\ c.iv = Add64(enc_info[f].iv, ToU32(P \div 16))

-----------------------------------------------------------------------------
(* C20: the 'cens' counter increment *)

\* the increment of the claim for n protected bytes under crypt:skip
PatternIncrement(n, crypt, skip) ==
    LET num_blocks == n \div 16
        pattern_size == crypt + skip
    IN  (num_blocks \div pattern_size) * crypt
          + (IF num_blocks % pattern_size >= crypt THEN crypt ELSE 0)

\* the last CDM call of f
LastCall(f) == cdm_calls[f][Len(cdm_calls[f])]

\* C20: under 'cens' with crypt_byte_block + skip_byte_block > 0, once the
\* IV update after a successful CDM call is done, the call's IV copy is the
\* IV of that call plus (num_blocks div pattern_size) * crypt_byte_block,
\* plus crypt_byte_block if num_blocks mod pattern_size >= crypt_byte_block,
\* whatever block_offset was, and block_offset is that of the call plus the
\* protected bytes, mod 16; for crypt 1, skip 9 and 160 protected bytes the
\* increment is 1.
C20_CensIncrement ==
    /\ CensIncrement(160, 1, 9) = 1
    /\ \A f \in Calls :
          (/\ enc_info[f].scheme = kCensScheme /\ side_data[f] = "ok"
           /\ enc_info[f].crypt_byte_block + enc_info[f].skip_byte_block > 0
           /\ pc[f] \in {"loop", "cdm", "done"}
           /\ Len(cdm_calls[f]) > 0) =>
              LET c == LastCall(f)
                  n == Len(c.data)
              IN  (c.subsample > 0 /\ c.status = "Success") =>
                    /\ cur_iv[f] =
                          Add64(c.iv, ToU32(PatternIncrement(n,
                                                enc_info[f].crypt_byte_block,
                                                enc_info[f].skip_byte_block)))
                    /\ block_offset[f] = (c.block_offset + n) % 16

\* Under 'cens' 1:1 the IV update after a second call, on one block at
\* block_offset 8 (a partial pattern that holds its crypt block), has
\* added 1 to the counter.
C20_Witness ==
    \E f \in Calls :
        /\ enc_info[f].scheme = kCensScheme
        /\ enc_info[f].crypt_byte_block = 1 /\ enc_info[f].skip_byte_block = 1
        /\ Len(enc_info[f].iv) = 16
        /\ pc[f] = "loop" /\ Len(cdm_calls[f]) = 2
        /\ LastCall(f).status = "Success"
        /\ LastCall(f).block_offset = 8 /\ Len(LastCall(f).data) = 20
        /\ cur_iv[f] = Add64(LastCall(f).iv, ToU32(1))
        /\ cur_iv[f] # LastCall(f).iv

-----------------------------------------------------------------------------
(* C21: the walk stays inside the packet *)

\* clear + protected > remaining as unbounded integers, on 32-bit values
\* given as <<high half, low half>>
Exceeds(clear, protected, remaining) ==
    LET lo == clear[2] + protected[2]
        hi == clear[1] + protected[1] + (lo \div Half)
        sum == <<hi \div Half, hi % Half, lo % Half>>
        rem == <<0, remaining[1], remaining[2]>>
    IN  \/ sum[1] > rem[1]
        \/ sum[1] = rem[1] /\ sum[2] > rem[2]
        \/ sum[1] = rem[1] /\ sum[2] = rem[2] /\ sum[3] > rem[3]

\* The "Invalid subsample size" test rejects exactly the subsamples that do
\* not fit, for sizes up to 2^32 - 1.
FitsIsExact ==
    \A remaining \in Counts32, clear \in Counts32, protected \in Counts32 :
        SubsampleFits(remaining, clear, protected)
            <=> ~Exceeds(clear, protected, remaining)

\* the subsample walk of f has set up its locals
WalkBegun(f) ==
    /\ Accepted(f) /\ Len(Table(f)) > 0
    /\ pc[f] \notin {"start", "classify", "dispatch"}

\* the subsample the walk of f is about to look at does not fit in what is
\* left of the packet
CurExceeds(f) ==
    /\ pc[f] = "loop" /\ i[f] < Len(Table(f))
    /\ Exceeds(ToU32(Cur(f).bytes_of_clear_data),
               ToU32(Cur(f).bytes_of_protected_data), ToU32(total_size[f]))

\* cursor + remaining is the packet size, and every copy and every CDM
\* range lies in the packet
WalkInBounds ==
    \A f \in Calls :
        /\ WalkBegun(f) =>
              /\ src[f] + total_size[f] = Len(packet_[f])
              /\ total_size[f] >= 0 /\ src[f] >= 0
        /\ pc[f] = "cdm" =>
              src[f] + Cur(f).bytes_of_protected_data <= Len(packet_[f])
        /\ \A k \in 1..Len(dest_writes[f]) :
              /\ 0 <= dest_writes[f][k].offset /\ 0 <= dest_writes[f][k].from
              /\ dest_writes[f][k].offset + dest_writes[f][k].size
                    <= Len(dest_packet[f])
              /\ dest_writes[f][k].from + dest_writes[f][k].size
                    <= Len(packet_[f])
        /\ \A k \in 1..Len(cdm_calls[f]) :
              /\ 0 <= cdm_calls[f][k].data_offset
              /\ cdm_calls[f][k].data_offset + Len(cdm_calls[f][k].data)
                    <= Len(packet_[f])

\* a step of f from the top of the loop: a subsample that does not fit ends
\* Decrypt with InvalidContainerData, nothing copied and no CDM call made;
\* one that fits does not end it
RejectsBeforeUse ==
    \A f \in Calls :
        (pc[f] = "loop" /\ i[f] < Len(Table(f)) /\ <<pc[f], i[f]>>' # <<pc[f], i[f]>>) =>
            IF CurExceeds(f)
            THEN /\ pc'[f] = "done" /\ status'[f] = "InvalidContainerData"
                 /\ dest_packet'[f] = dest_packet[f]
                 /\ dest_writes'[f] = dest_writes[f]
                 /\ cdm_calls'[f] = cdm_calls[f]
            ELSE pc'[f] # "done"

\* C21: at every step of the walk cursor + remaining = packet size and
\* remaining >= 0; a subsample with clear_bytes > remaining or
\* protected_bytes > remaining - clear_bytes makes Decrypt return
\* InvalidContainerData before any of its bytes is copied or passed to the
\* CDM, the test being exact for all 32-bit sizes; so every clear copy and
\* every CDM input and output range lies inside [0, packet size).
C21_BoundsSafety ==
    /\ [](FitsIsExact /\ WalkInBounds)
    /\ [][RejectsBeforeUse]_vars

\* After one CDM call on 8 bytes the walk rejected a second subsample, of
\* which nothing was copied.
C21_Witness ==
    \E f \in Calls :
        /\ WalkBegun(f) /\ Returned(f) /\ status[f] = "InvalidContainerData"
        /\ i[f] = 1 /\ i[f] < Len(Table(f)) /\ total_size[f] > 0
        /\ Cur(f).bytes_of_clear_data + Cur(f).bytes_of_protected_data
              > total_size[f]
        /\ Len(cdm_calls[f]) = 1 /\ cdm_calls[f][1].status = "Success"
        /\ Len(dest_writes[f]) = 2

-----------------------------------------------------------------------------
(* C22: the range of block_offset *)

\* C22: the block_offset of every CDM call is in 0..15; it is 0 in the first
\* CDM call of a Decrypt and in every CDM call under 'cbc1' and 'cbcs',
\* where the local block_offset never leaves 0.
C22_BlockOffsetRange ==
    \A f \in Calls :
        /\ block_offset[f] \in 0..15
        /\ enc_info[f].scheme \in {kCbc1Scheme, kCbcsScheme} => block_offset[f] = 0
        /\ \A k \in 1..Len(cdm_calls[f]) :
              /\ cdm_calls[f][k].block_offset \in 0..15
              /\ k = 1 => cdm_calls[f][k].block_offset = 0
              /\ enc_info[f].scheme \in {kCbc1Scheme, kCbcsScheme}
                    => cdm_calls[f][k].block_offset = 0

\* Three CDM calls under 'cens' at block_offset 0, 8 and 12, and the local
\* is back at 0 after 8 + 20 + 20 protected bytes.
C22_Witness ==
    \E f \in Calls :
        /\ enc_info[f].scheme = kCensScheme /\ Len(cdm_calls[f]) = 3
        /\ cdm_calls[f][1].block_offset = 0
        /\ cdm_calls[f][2].block_offset = 8
        /\ cdm_calls[f][3].block_offset = 12
        /\ pc[f] = "loop" /\ block_offset[f] = 0

-----------------------------------------------------------------------------
(* C23: one CDM call per protected region *)

\* the subsamples of f that have protected bytes
ProtectedSubsamples(f) ==
    {n \in 1..Len(Table(f)) : Table(f)[n].bytes_of_protected_data > 0}

\* the offset in the packet of the protected bytes of subsample n
ProtectedOffset(f, n) ==
    Sum([k \in 1..Len(Table(f)) |-> SubsampleSize(Table(f)[k])], n - 1)
        + Table(f)[n].bytes_of_clear_data

\* When Decrypt has returned Success on a non-empty table, its CDM calls are
\* the subsamples with protected bytes, each once and in table order, each on
\* that subsample's protected bytes; the clear bytes of all subsamples are
\* part of the total that equals the packet size.
OneCallPerRegion ==
    \A f \in Calls :
        (Returned(f) /\ status[f] = "Success" /\ Len(Table(f)) > 0) =>
            /\ Len(cdm_calls[f]) = Cardinality(ProtectedSubsamples(f))
            /\ \A k \in 1..Len(cdm_calls[f]) :
                  LET n == cdm_calls[f][k].subsample
                  IN  /\ n \in ProtectedSubsamples(f)
                      /\ k > 1 => cdm_calls[f][k - 1].subsample < n
                      /\ cdm_calls[f][k].data_offset = ProtectedOffset(f, n)
                      /\ Len(cdm_calls[f][k].data)
                            = Table(f)[n].bytes_of_protected_data
            /\ TableTotal(Table(f)) = Len(packet_[f])

\* The clear-copy step (from the top of the loop to the CDM call or to the
\* next subsample) changes neither the IV nor block_offset and calls no CDM;
\* on a subsample without protected bytes it is the whole iteration: the
\* clear bytes are copied and taken off the remaining size.
ClearCopyKeepsIv ==
    \A f \in Calls :
        (/\ pc[f] = "loop" /\ pc'[f] \in {"loop", "cdm"}
         /\ <<pc[f], i[f]>>' # <<pc[f], i[f]>>) =>
            /\ cur_iv'[f] = cur_iv[f]
            /\ block_offset'[f] = block_offset[f]
            /\ cdm_calls'[f] = cdm_calls[f]
            /\ total_size'[f] = total_size[f] - Cur(f).bytes_of_clear_data
            /\ Bytes(dest_packet'[f], dest[f], Cur(f).bytes_of_clear_data)
                  = Bytes(packet_[f], src[f], Cur(f).bytes_of_clear_data)
            /\ IF Cur(f).bytes_of_protected_data = 0
               THEN pc'[f] = "loop" /\ i'[f] = i[f] + 1
               ELSE pc'[f] = "cdm" /\ i'[f] = i[f]

\* C23: in a Decrypt that returns Success on a non-empty table the CDM calls
\* correspond one-to-one and in order to the subsamples with protected
\* bytes; a subsample without protected bytes causes no CDM call and leaves
\* the IV and block_offset as they are while its clear bytes are copied and
\* counted; the clear-copy step never changes the IV or block_offset.
C23_OneCallPerProtectedRegion ==
    /\ []OneCallPerRegion
    /\ [][ClearCopyKeepsIv]_vars

\* Success on a table whose second subsample of three has clear bytes only:
\* two CDM calls, for subsamples 1 and 3, the IV of the second call being
\* one more than that of the first under 'cenc'.
C23_Witness ==
    \E f \in Calls :
        /\ Returned(f) /\ status[f] = "Success" /\ Len(Table(f)) = 3
        /\ enc_info[f].scheme = kCencScheme /\ Len(enc_info[f].iv) = 16
        /\ Table(f)[2].bytes_of_protected_data = 0
        /\ Table(f)[2].bytes_of_clear_data > 0
        /\ Len(cdm_calls[f]) = 2
        /\ cdm_calls[f][1].subsample = 1 /\ cdm_calls[f][2].subsample = 3
        /\ cdm_calls[f][2].iv = Add64(cdm_calls[f][1].iv, ToU32(1))

-----------------------------------------------------------------------------
(* C24 *)

Called(op) == last_call' # last_call /\ last_call'.op = op

Answered(result) == last_call'.result = result

AnyUpdating == \E t \in DOMAIN source_buffers_ : source_buffers_[t]

\* EndOfStream ends the stream exactly when the state is OPEN, no source
\* buffer is updating and no argument is given
EndOfStreamAllowed == ready_state = "OPEN" /\ ~AnyUpdating /\ ~last_call'.error

StartsClosed == last_call.n = 0 => ready_state = "CLOSED"

OpenStep ==
    Called("OpenMediaSource") /\ ready_state = "CLOSED" =>
        /\ Answered("void")
        /\ ready_state' = "OPEN"

EndOfStreamStep ==
    Called("EndOfStream") =>
        IF EndOfStreamAllowed
        THEN /\ Answered("void")
             /\ ready_state' = "ENDED"
             /\ events' = Append(events, "SourceEnded")
             /\ controller_' = Append(controller_, "EndOfStream")
        ELSE /\ Answered(IF ready_state = "OPEN" /\ ~AnyUpdating
                         THEN "NotSupportedError" ELSE "InvalidStateError")
             /\ UNCHANGED <<ready_state, events, controller_>>

CloseStep ==
    Called("CloseMediaSource") /\ ready_state \in {"OPEN", "ENDED"} =>
        /\ Answered("void")
        /\ ready_state' = "CLOSED"
        /\ source_buffers_' = <<>>
        /\ video_element_' = "null"
        /\ events' = Append(events, "SourceClose")

EndedOnlyFromOpen ==
    ready_state' = "ENDED" /\ ready_state # "ENDED" => ready_state = "OPEN"

\* C24: the ready state starts CLOSED; OpenMediaSource takes CLOSED to OPEN;
\* EndOfStream takes OPEN to ENDED, schedules SourceEnded and calls the
\* controller exactly when the state is OPEN, no source buffer is updating
\* and no argument is given, and otherwise returns InvalidStateError (or
\* NotSupportedError for the argument) and changes neither the state, the
\* events nor the controller; CloseMediaSource takes OPEN or ENDED to CLOSED,
\* clears the source buffers and the video element and schedules SourceClose;
\* ENDED is entered from OPEN only.
C24_ReadyStateMachine ==
    /\ []StartsClosed
    /\ [][OpenStep /\ EndOfStreamStep /\ CloseStep /\ EndedOnlyFromOpen]_vars

\* a second EndOfStream, after the one that ended the stream, has failed and
\* left the state ENDED, the one SourceEnded event and the one controller call
C24_Witness ==
    /\ last_call.op = "EndOfStream"
    /\ last_call.result = "InvalidStateError"
    /\ ~last_call.error
    /\ ready_state = "ENDED"
    /\ ~AnyUpdating
    /\ events = <<"SourceOpen", "SourceEnded">>
    /\ controller_ = <<"EndOfStream">>

====
